---- MODULE Spec2Model ----
(***************************************************************************)
(* Model of two pieces of the xilem repository:                            *)
(*   masonry/src/passes/compose.rs      the compose pass over the widget   *)
(*                                      tree (root_compose)                *)
(*   xilem_core/src/views/map_task.rs   the MapAction view combinator      *)
(* The compose pass is specified by Spec, the combinator by MapSpec.       *)
(***************************************************************************)
EXTENDS Integers, Sequences, FiniteSets, TLC

\* ---------------------------------------------------------------- bounds
NumNodes == 5      \* widgets in the tree
MaxOps == 3        \* changes the host makes to the tree in one behaviour
MaxSteps == 5      \* calls the host makes on the view in one behaviour

\* ------------------------------------------------------------- geometry
Nodes == 1..NumNodes
Root == 1
\* Vec2::ZERO
Zero == <<0, 0>>
\* the origins (Point) layout assigns
Origins == {<<0, 0>>, <<1, 0>>}
\* the translations (Vec2) a widget is given
Translations == {<<0, 0>>, <<3, 4>>}
\* Vec2 + Vec2
VAdd(a, b) == <<a[1] + b[1], a[2] + b[2]>>

Flags == {"needs_compose", "request_compose", "translation_changed"}

\* ------------------------------------------------------------ variables
VARIABLES
    children,           \* children_ids() of every widget
    widget_arena,       \* the ids that have a widget in the widget arena
    state_arena,        \* the ids that have a WidgetState in the state arena
    st,                 \* the WidgetState of every widget in the arena
    hook,               \* what each widget's compose() does
    global_root_state,  \* the accumulator root_compose merges into
    ops,                \* host changes made so far
    pass                \* record of the last root_compose, for observation

composeVars == <<children, widget_arena, state_arena, st, hook,
                 global_root_state, ops, pass>>

VARIABLES
    phase,          \* "absent", "built" or "torn": where the MapAction node is
    self,           \* the MapAction view value the node was last built from
    ctx,            \* the Context (ViewPathTracker): the next ViewId to assign
    view_state,     \* MapAction::ViewState of the node
    element,        \* MapAction::Element of the node
    app_state,      \* State: the application state (the count of the example)
    ret,            \* what the last call on the MapAction returned
    call,           \* the last call on the MapAction and its arguments
    childCalls,     \* the calls that call made on the wrapped child, in order
    mapCalls,       \* the calls that call made of map_fn, in order
    callbackCalls,  \* how often callback_fn has been called so far
    pending,        \* the deferred units map_fn produced, not completed or dropped
    spawned,        \* the deferred units handed to the task scheduler so far
    steps,          \* calls made so far
    nodeLog,        \* every call made on the MapAction: <<operation, ViewId>>
    childLog        \* every call made on the wrapped child, likewise

mapVars == <<phase, self, ctx, view_state, element, app_state, ret, call,
             childCalls, mapCalls, callbackCalls, pending, spawned, steps,
             nodeLog, childLog>>

vars == <<composeVars, mapVars>>

\* ------------------------------------------------------------ tree shape
\* Two widget trees: in the bushy one the widget i > 1 is a child of the
\* widget i \div 2, in the chain it is the only child of the widget i - 1.
BushyParent == [i \in Nodes |-> i \div 2]
ChainParent == [i \in Nodes |-> i - 1]
\* children_ids() of widget n when P gives the parents: by increasing id
ChildrenIds(P, n) == SelectSeq([i \in 1..NumNodes |-> i],
                               LAMBDA i : i > 1 /\ P[i] = n)
Shapes == {[n \in Nodes |-> ChildrenIds(BushyParent, n)],
           [n \in Nodes |-> ChildrenIds(ChainParent, n)]}

SeqToSet(s) == {s[i] : i \in 1..Len(s)}

\* the parent of a widget other than the root, in the tree of the state
ParentOf(n) ==
    CHOOSE p \in Nodes : \E i \in 1..Len(children[p]) : children[p][i] = n

RECURSIVE Ancestors(_)
\* the proper ancestors of a widget
Ancestors(n) == IF n = Root THEN {} ELSE {ParentOf(n)} \cup Ancestors(ParentOf(n))
\* the proper descendants of a widget
Descendants(n) == {d \in Nodes : n \in Ancestors(d)}

\* ---------------------------------------------------------- WidgetState
NewState == [origin |-> Zero, translation |-> Zero, window_origin |-> Zero,
             needs_compose |-> FALSE, request_compose |-> FALSE,
             translation_changed |-> FALSE]

\* WidgetState::merge_up: logical OR of the propagating flags
merge_up(parent, child) ==
    [parent EXCEPT !.needs_compose = @ \/ child.needs_compose,
                   !.request_compose = @ \/ child.request_compose]

\* ------------------------------------------------------------ the hooks
NoHook == [kind |-> "none"]
\* Widget::compose of widget n, run with a ComposeCtx on n: it may give
\* one direct child a new translation (ComposeCtx::set_child_translation)
compose(s, n) ==
    LET h == hook[n] IN
    IF h.kind = "none" \/ h.child \notin SeqToSet(children[n])
    THEN s
    ELSE [s EXCEPT !.st[h.child].translation = h.tr,
                   !.st[h.child].translation_changed =
                        @ \/ (s.st[h.child].translation # h.tr)]

\* ------------------------------------------------------- the pass itself
\* Widget::short_type_name, used in the panic message only
short_type_name(n) == IF children[n] = <<>> THEN "Leaf" ELSE "Container"

\* no panic has happened
NoPanic == [kind |-> "none"]
\* the panic of recurse_on_children: "Error in '{name}' #{parent}: cannot
\* find child #{child} returned by children_ids()"
Panic(id, c) ==
    [kind |-> "panic", name |-> short_type_name(id), parent |-> id, child |-> c]

RECURSIVE compose_widget(_, _, _, _), recurse_on_children(_, _, _, _, _)

\* the child has been composed: merge_up into the parent, unless it panicked
merge_child(sc, parent, c) ==
    IF sc.panic # NoPanic
    THEN sc
    ELSE [sc EXCEPT !.st[parent] = merge_up(sc.st[parent], sc.st[c]),
                    !.merged = Append(@, <<parent, c>>),
                    !.events = Append(@, <<"merge", c>>)]

\* the child is reached by the closure; its state then is recorded
reach_child(s, c) ==
    [s EXCEPT !.reached = @ \cup {c}, !.seen[c] = s.st[c]]

\* the closure returns without composing the child
skip_child(s, c) == [s EXCEPT !.events = Append(@, <<"skip", c>>)]

\* compose_child that never skips a child
compose_child_noSkip(s, parent, c, moved, translation) ==
    merge_child(compose_widget(reach_child(s, c), c, moved, translation),
                parent, c)

\* compose_child that merges the child into the parent before composing it
compose_child_mergeFirst(s, parent, c, moved, translation) ==
    IF ~moved /\ ~s.st[c].translation_changed /\ ~s.st[c].needs_compose
    THEN skip_child(reach_child(s, c), c)
    ELSE compose_widget(merge_child(reach_child(s, c), parent, c),
                        c, moved, translation)

\* compose_child whose test leaves out needs_compose
compose_child_noNeeds(s, parent, c, moved, translation) ==
    IF ~moved /\ ~s.st[c].translation_changed
    THEN skip_child(reach_child(s, c), c)
    ELSE merge_child(compose_widget(reach_child(s, c), c, moved, translation),
                     parent, c)

\* compose_child that does not hand moved down
compose_child_dropMoved(s, parent, c, moved, translation) ==
    IF ~moved /\ ~s.st[c].translation_changed /\ ~s.st[c].needs_compose
    THEN skip_child(reach_child(s, c), c)
    ELSE merge_child(compose_widget(reach_child(s, c), c, FALSE, translation),
                     parent, c)

\* compose_child that also composes a child that has request_compose
compose_child_visitOnRequest(s, parent, c, moved, translation) ==
    IF ~moved /\ ~s.st[c].translation_changed /\ ~s.st[c].needs_compose
        /\ ~s.st[c].request_compose
    THEN skip_child(reach_child(s, c), c)
    ELSE merge_child(compose_widget(reach_child(s, c), c, moved, translation),
                     parent, c)

\* the closure compose_widget hands to recurse_on_children
compose_child(s, parent, c, moved, translation) ==
    IF ~moved /\ ~s.st[c].translation_changed /\ ~s.st[c].needs_compose
    THEN skip_child(reach_child(s, c), c)
    ELSE merge_child(compose_widget(reach_child(s, c), c, moved, translation),
                     parent, c)

\* recurse_on_children that passes over a child it cannot find
recurse_on_children_skipMissing(s, id, i, moved, translation) ==
    IF s.panic # NoPanic \/ i > Len(children[id])
    THEN s
    ELSE IF children[id][i] \notin widget_arena
            \/ children[id][i] \notin state_arena
    THEN recurse_on_children(s, id, i + 1, moved, translation)
    ELSE recurse_on_children(
             compose_child(s, id, children[id][i], moved, translation),
             id, i + 1, moved, translation)

\* recurse_on_children that takes the children last to first
recurse_on_children_reversed(s, id, i, moved, translation) ==
    IF s.panic # NoPanic \/ i > Len(children[id])
    THEN s
    ELSE IF children[id][Len(children[id]) + 1 - i] \notin widget_arena
            \/ children[id][Len(children[id]) + 1 - i] \notin state_arena
    THEN [s EXCEPT !.panic = Panic(id, children[id][Len(children[id]) + 1 - i])]
    ELSE recurse_on_children(
             compose_child(s, id, children[id][Len(children[id]) + 1 - i],
                           moved, translation),
             id, i + 1, moved, translation)

\* recurse_on_children from the i-th child id on: a child that is not in
\* the widget arena or not in the state arena is a panic, which ends the pass
recurse_on_children(s, id, i, moved, translation) ==
    IF s.panic # NoPanic \/ i > Len(children[id])
    THEN s
    ELSE IF children[id][i] \notin widget_arena
            \/ children[id][i] \notin state_arena
    THEN [s EXCEPT !.panic = Panic(id, children[id][i])]
    ELSE recurse_on_children(
             compose_child(s, id, children[id][i], moved, translation),
             id, i + 1, moved, translation)

\* compose_widget, the widget's own part: window_origin from the translation
window_origin_step(s, n, moved, translation) ==
    [s EXCEPT !.st[n].window_origin = translation,
              !.visits = Append(@, n),
              !.events = Append(@, <<"visit", n>>),
              !.moved = IF moved THEN @ \cup {n} ELSE @,
              !.at[n] = s.st[n]]

\* the hook is run on needs_compose as well
hook_step_onNeeds(s, n) ==
    IF s.st[n].request_compose \/ s.st[n].needs_compose
    THEN [compose(s, n) EXCEPT !.hooks = Append(@, n),
                               !.events = Append(@, <<"hook", n>>)]
    ELSE s

\* compose_widget, the widget's own part: the hook, if it was requested
hook_step(s, n) ==
    IF s.st[n].request_compose
    THEN [compose(s, n) EXCEPT !.hooks = Append(@, n),
                               !.events = Append(@, <<"hook", n>>)]
    ELSE s

\* the widget's flags are as they are now when its clearing is recorded
record_clear(s, n) ==
    [s EXCEPT !.cleared[n] = s.st[n], !.events = Append(@, <<"clear", n>>)]

\* request_compose is not cleared
clear_flags_keepRequest(s, n) ==
    record_clear([s EXCEPT !.st[n].needs_compose = FALSE,
                           !.st[n].translation_changed = FALSE], n)

\* needs_compose is not cleared
clear_flags_keepNeeds(s, n) ==
    record_clear([s EXCEPT !.st[n].request_compose = FALSE,
                           !.st[n].translation_changed = FALSE], n)

\* compose_widget, the widget's own part: the three flags are cleared
clear_flags(s, n) ==
    record_clear([s EXCEPT !.st[n].needs_compose = FALSE,
                           !.st[n].request_compose = FALSE,
                           !.st[n].translation_changed = FALSE], n)

\* compose_widget that forgets the parent's translation
compose_widget_noParent(s, n, parent_moved, parent_translation) ==
    LET moved == parent_moved \/ s.st[n].translation_changed
        translation == VAdd(s.st[n].translation, s.st[n].origin)
        s3 == clear_flags(hook_step(
                  window_origin_step(s, n, moved, translation), n), n)
    IN recurse_on_children(s3, n, 1, moved, translation)

\* compose_widget that clears the flags after the children
compose_widget_clearLast(s, n, parent_moved, parent_translation) ==
    LET moved == parent_moved \/ s.st[n].translation_changed
        translation == VAdd(VAdd(parent_translation, s.st[n].translation),
                            s.st[n].origin)
        s2 == hook_step(window_origin_step(s, n, moved, translation), n)
        s4 == recurse_on_children(s2, n, 1, moved, translation)
    IN IF s4.panic # NoPanic THEN s4 ELSE clear_flags(s4, n)

\* compose_widget that runs the hook after the children
compose_widget_hookLast(s, n, parent_moved, parent_translation) ==
    LET moved == parent_moved \/ s.st[n].translation_changed
        translation == VAdd(VAdd(parent_translation, s.st[n].translation),
                            s.st[n].origin)
        s1 == window_origin_step(s, n, moved, translation)
        s4 == recurse_on_children(s1, n, 1, moved, translation)
    IN IF s4.panic # NoPanic THEN s4 ELSE clear_flags(hook_step(s4, n), n)

compose_widget(s, n, parent_moved, parent_translation) ==
    LET moved == parent_moved \/ s.st[n].translation_changed
        translation == VAdd(VAdd(parent_translation, s.st[n].translation),
                            s.st[n].origin)
        s3 == clear_flags(hook_step(
                  window_origin_step(s, n, moved, translation), n), n)
    IN recurse_on_children(s3, n, 1, moved, translation)

\* the observation record of a pass that has not run
NoPass == [run |-> 0, pre |-> <<>>, at |-> <<>>, visits |-> <<>>,
           hooks |-> <<>>, moved |-> {}, merged |-> <<>>, acc |-> <<>>,
           prevHooks |-> <<>>, events |-> <<>>, reached |-> {},
           seen |-> <<>>, cleared |-> <<>>, panic |-> NoPanic]

\* the pass starts on the tree as it is, with nothing observed yet
StartOfPass ==
    [st |-> st, visits |-> <<>>, hooks |-> <<>>, moved |-> {},
     merged |-> <<>>, at |-> [n \in Nodes |-> NewState], events |-> <<>>,
     reached |-> {}, seen |-> [n \in Nodes |-> NewState],
     cleared |-> [n \in Nodes |-> NewState], panic |-> NoPanic]

\* what is observed of the pass that ended in s
Observed(s) ==
    [run |-> IF pass.run = 0 THEN 1 ELSE 2,
     pre |-> st, at |-> s.at, visits |-> s.visits,
     hooks |-> s.hooks, moved |-> s.moved, merged |-> s.merged,
     acc |-> global_root_state, prevHooks |-> pass.hooks,
     events |-> s.events, reached |-> s.reached, seen |-> s.seen,
     cleared |-> s.cleared, panic |-> s.panic]

\* root_compose that assigns the root's state to the accumulator
root_compose_overwrite ==
    LET s == compose_widget(StartOfPass, Root, FALSE, Zero)
    IN /\ pass.panic = NoPanic
       /\ st' = s.st
       /\ global_root_state' =
              IF s.panic # NoPanic THEN global_root_state
              ELSE [global_root_state EXCEPT
                        !.needs_compose = s.st[Root].needs_compose,
                        !.request_compose = s.st[Root].request_compose]
       /\ pass' = Observed(s)
       /\ UNCHANGED <<children, hook, ops, widget_arena, state_arena, mapVars>>

\* root_compose(root, global_root_state); a panic in the pass leaves the
\* tree as it was when it happened, and nothing runs after it
root_compose ==
    LET s == compose_widget(StartOfPass, Root, FALSE, Zero)
    IN /\ pass.panic = NoPanic
       /\ st' = s.st
       /\ global_root_state' =
              IF s.panic # NoPanic THEN global_root_state
              ELSE merge_up(global_root_state, s.st[Root])
       /\ pass' = Observed(s)
       /\ UNCHANGED <<children, hook, ops, widget_arena, state_arena, mapVars>>

\* ------------------------------------------------------ the host's moves
\* a widget asks for work: one of its flags is raised
SetFlag(n, f) ==
    /\ ops < MaxOps
    /\ pass.panic = NoPanic
    /\ ~st[n][f]
    /\ st' = [st EXCEPT ![n][f] = TRUE]
    /\ ops' = ops + 1
    /\ pass' = NoPass
    /\ UNCHANGED <<children, widget_arena, state_arena, hook, global_root_state, mapVars>>

\* a widget's local translation is assigned
SetTranslation(n, v) ==
    /\ ops < MaxOps
    /\ pass.panic = NoPanic
    /\ st[n].translation # v
    /\ st' = [st EXCEPT ![n].translation = v]
    /\ ops' = ops + 1
    /\ pass' = NoPass
    /\ UNCHANGED <<children, widget_arena, state_arena, hook, global_root_state, mapVars>>

\* layout assigns a widget's origin
SetOrigin(n, v) ==
    /\ ops < MaxOps
    /\ pass.panic = NoPanic
    /\ st[n].origin # v
    /\ st' = [st EXCEPT ![n].origin = v]
    /\ ops' = ops + 1
    /\ pass' = NoPass
    /\ UNCHANGED <<children, widget_arena, state_arena, hook, global_root_state, mapVars>>

\* a widget's compose() is one that moves its child c to v
SetHook(n, c, v) ==
    /\ ops < MaxOps
    /\ pass.panic = NoPanic
    /\ c \in SeqToSet(children[n])
    /\ hook[n] # [kind |-> "move", child |-> c, tr |-> v]
    /\ hook' = [hook EXCEPT ![n] = [kind |-> "move", child |-> c, tr |-> v]]
    /\ ops' = ops + 1
    /\ pass' = NoPass
    /\ UNCHANGED <<children, widget_arena, state_arena, st, global_root_state, mapVars>>

\* a widget is lost from one of the arenas though its parent's
\* children_ids() still names it
DropWidget(n, store) ==
    /\ ops < MaxOps
    /\ pass.panic = NoPanic
    /\ n # Root
    /\ n \in widget_arena /\ n \in state_arena
    /\ widget_arena' = IF store = "widget" THEN widget_arena \ {n}
                       ELSE widget_arena
    /\ state_arena' = IF store = "state" THEN state_arena \ {n}
                      ELSE state_arena
    /\ ops' = ops + 1
    /\ pass' = NoPass
    /\ UNCHANGED <<children, st, hook, global_root_state, mapVars>>

\* another pass of the host has raised a flag of the accumulator
SetAccFlag(f) ==
    /\ ops < MaxOps
    /\ pass.panic = NoPanic
    /\ ~global_root_state[f]
    /\ global_root_state' = [global_root_state EXCEPT ![f] = TRUE]
    /\ ops' = ops + 1
    /\ pass' = NoPass
    /\ UNCHANGED <<children, widget_arena, state_arena, st, hook, mapVars>>

\* a widget is given a new translation the way the host does it: with
\* translation_changed on the widget and needs_compose on all its ancestors
MoveWidget(n, v) ==
    /\ ops < MaxOps
    /\ pass.panic = NoPanic
    /\ st[n].translation # v
    /\ st' = [m \in Nodes |->
                IF m = n THEN [st[m] EXCEPT !.translation = v,
                                            !.translation_changed = TRUE]
                ELSE IF m \in Ancestors(n)
                     THEN [st[m] EXCEPT !.needs_compose = TRUE]
                ELSE st[m]]
    /\ ops' = ops + 1
    /\ pass' = NoPass
    /\ UNCHANGED <<children, widget_arena, state_arena, hook,
                   global_root_state, mapVars>>

\* ======================================================================
\* xilem_core/src/views/map_task.rs: the MapAction view
\* ======================================================================
\* the child views: a label showing 0 or 1
ChildViews == {[label |-> 0], [label |-> 1]}
\* what the child's message handler is sent
Messages == {"inc", "dec", "touch"}
\* ChildAction: the CountMessage of the example
ChildActions == {"Increment", "Decrement"}
None == [tag |-> "None"]

\* ---------------------------------------------------- the wrapped child V
\* V::build: takes the next ViewId of the context, builds the element
child_build(v, c) ==
    [ret |-> [element |-> [id |-> c.next, label |-> v.label],
              view_state |-> [id |-> c.next]],
     ctx |-> [next |-> c.next + 1],
     calls |-> <<[op |-> "build", view |-> v, ctx |-> c]>>]

\* V::rebuild: updates the element in place where the view changed
child_rebuild(v, prev, vs, c, el) ==
    LET el2 == IF v = prev THEN el ELSE [el EXCEPT !.label = v.label]
    IN [ret |-> el2, element |-> el2, view_state |-> vs, ctx |-> c,
        calls |-> <<[op |-> "rebuild", view |-> v, prev |-> prev,
                     view_state |-> vs, ctx |-> c, element |-> el]>>]

\* V::teardown: releases the element
child_teardown(v, vs, c, el) ==
    [ret |-> None, element |-> None, view_state |-> vs, ctx |-> c,
     calls |-> <<[op |-> "teardown", view |-> v, view_state |-> vs,
                  ctx |-> c, element |-> el]>>]

\* V::message: a path that is not the node's own reaches no target; "touch"
\* is consumed; "inc" and "dec" count the click and produce the child's action
child_message(v, vs, id_path, m, app) ==
    LET r == IF id_path # <<vs.id>> THEN [tag |-> "Stale", msg |-> m]
             ELSE IF m = "touch" THEN [tag |-> "Nop"]
             ELSE [tag |-> "Action",
                   action |-> IF m = "inc" THEN "Increment" ELSE "Decrement"]
        app2 == IF id_path # <<vs.id>> THEN app ELSE app + 1
    IN [ret |-> r, view_state |-> vs, app_state |-> app2,
        calls |-> <<[op |-> "message", view |-> v, view_state |-> vs,
                     id_path |-> id_path, message |-> m, app_state |-> app,
                     ret |-> r, app_after |-> app2]>>]

\* ------------------------------------------------- the closures of the view
\* map_fn(&mut State, ChildAction) -> Fut: updates the count and returns the
\* deferred unit, which carries what it was made from
map_fn(app, action) ==
    [app_state |-> IF action = "Increment" THEN app + 1 ELSE app - 1,
     fut |-> [of |-> action, seen |-> app]]

\* callback_fn(&mut State, FutureOutput) -> ParentAction
callback_fn(app, output) ==
    [app_state |-> app, action |-> [done |-> output]]

\* MessageResult::map: only an action is mapped
MessageResult_map(r, f) ==
    IF r.tag = "Action" THEN [tag |-> "Action", action |-> f[r.action]] ELSE r

\* ------------------------------------------------------------ MapAction
\* map_action(view, map_fn, callback_fn)
map_action(view) == [child |-> view]

\* MapAction::build
build(me, c) == child_build(me.child, c)

\* rebuild that diffs the child against itself
rebuild_againstSelf(me, prev, vs, c, el) ==
    child_rebuild(me.child, me.child, vs, c, el)

\* MapAction::rebuild
rebuild(me, prev, vs, c, el) == child_rebuild(me.child, prev.child, vs, c, el)

\* teardown that leaves the child alone
teardown_skipChild(me, vs, c, el) ==
    [ret |-> None, element |-> None, view_state |-> vs, ctx |-> c,
     calls |-> <<>>]

\* MapAction::teardown
teardown(me, vs, c, el) == child_teardown(me.child, vs, c, el)

\* message that applies map_fn to the state it was entered with
message_staleState(me, vs, id_path, m, app) ==
    LET r == child_message(me.child, vs, id_path, m, app)
        mapped == MessageResult_map(r.ret,
                      [a \in ChildActions |-> map_fn(app, a).fut])
        isAction == r.ret.tag = "Action"
    IN [ret |-> mapped,
        view_state |-> r.view_state,
        app_state |-> IF isAction THEN map_fn(app, r.ret.action).app_state
                      ELSE r.app_state,
        calls |-> r.calls,
        mapCalls |-> IF isAction
                     THEN <<[app_state |-> app, action |-> r.ret.action]>>
                     ELSE <<>>,
        callbackCalls |-> 0,
        spawned |-> {}]

\* message that applies map_fn whatever the child returned
message_mapAlways(me, vs, id_path, m, app) ==
    LET r == child_message(me.child, vs, id_path, m, app)
        a == IF r.ret.tag = "Action" THEN r.ret.action ELSE "Increment"
        f == map_fn(r.app_state, a)
    IN [ret |-> [tag |-> "Action", action |-> f.fut],
        view_state |-> r.view_state,
        app_state |-> f.app_state,
        calls |-> r.calls,
        mapCalls |-> <<[app_state |-> r.app_state, action |-> a]>>,
        callbackCalls |-> 0,
        spawned |-> {}]

\* MapAction::message
message(me, vs, id_path, m, app) ==
    LET r == child_message(me.child, vs, id_path, m, app)
        mapped == MessageResult_map(r.ret,
                      [a \in ChildActions |-> map_fn(r.app_state, a).fut])
        isAction == r.ret.tag = "Action"
    IN [ret |-> mapped,
        view_state |-> r.view_state,
        app_state |-> IF isAction THEN map_fn(r.app_state, r.ret.action).app_state
                      ELSE r.app_state,
        calls |-> r.calls,
        mapCalls |-> IF isAction
                     THEN <<[app_state |-> r.app_state, action |-> r.ret.action]>>
                     ELSE <<>>,
        callbackCalls |-> 0,
        spawned |-> {}]

\* ------------------------------------------------------ the host's calls
\* the calls of one operation as log entries: the operation and the ViewId
\* of the node it is made on (for build, the ViewId the build assigns)
LogEntries(calls) ==
    [i \in 1..Len(calls) |->
        <<calls[i].op, IF calls[i].op = "build" THEN calls[i].ctx.next
                       ELSE calls[i].view_state.id>>]

Build(v) ==
    /\ steps < MaxSteps
    /\ phase \in {"absent", "torn"}
    /\ LET me == map_action(v)
           r == build(me, ctx)
       IN /\ self' = me
          /\ ctx' = r.ctx
          /\ element' = r.ret.element
          /\ view_state' = r.ret.view_state
          /\ ret' = r.ret
          /\ call' = [op |-> "build", view |-> v, ctx |-> ctx]
          /\ childCalls' = r.calls
          /\ childLog' = childLog \o LogEntries(r.calls)
          /\ nodeLog' = Append(nodeLog, <<"build", ctx.next>>)
    /\ phase' = "built"
    /\ mapCalls' = <<>>
    /\ steps' = steps + 1
    /\ UNCHANGED <<app_state, callbackCalls, pending, spawned, composeVars>>

Rebuild(v) ==
    /\ steps < MaxSteps
    /\ phase = "built"
    /\ LET me == map_action(v)
           r == rebuild(me, self, view_state, ctx, element)
       IN /\ self' = me
          /\ ctx' = r.ctx
          /\ element' = r.element
          /\ view_state' = r.view_state
          /\ ret' = r.ret
          /\ call' = [op |-> "rebuild", view |-> v, prev |-> self.child,
                      view_state |-> view_state, ctx |-> ctx,
                      element |-> element]
          /\ childCalls' = r.calls
          /\ childLog' = childLog \o LogEntries(r.calls)
          /\ nodeLog' = Append(nodeLog, <<"rebuild", view_state.id>>)
    /\ mapCalls' = <<>>
    /\ steps' = steps + 1
    /\ UNCHANGED <<phase, app_state, callbackCalls, pending, spawned,
                   composeVars>>

Teardown ==
    /\ steps < MaxSteps
    /\ phase = "built"
    /\ LET r == teardown(self, view_state, ctx, element)
       IN /\ ctx' = r.ctx
          /\ element' = r.element
          /\ view_state' = r.view_state
          /\ ret' = r.ret
          /\ call' = [op |-> "teardown", view |-> self.child,
                      view_state |-> view_state, ctx |-> ctx,
                      element |-> element]
          /\ childCalls' = r.calls
          /\ childLog' = childLog \o LogEntries(r.calls)
          /\ nodeLog' = Append(nodeLog, <<"teardown", view_state.id>>)
    /\ phase' = "torn"
    /\ mapCalls' = <<>>
    /\ steps' = steps + 1
    /\ UNCHANGED <<self, app_state, callbackCalls, pending, spawned,
                   composeVars>>

Message(id_path, m) ==
    /\ steps < MaxSteps
    /\ phase = "built"
    /\ LET r == message(self, view_state, id_path, m, app_state)
       IN /\ view_state' = r.view_state
          /\ app_state' = r.app_state
          /\ ret' = r.ret
          /\ call' = [op |-> "message", view |-> self.child,
                      view_state |-> view_state, id_path |-> id_path,
                      message |-> m, app_state |-> app_state]
          /\ childCalls' = r.calls
          /\ childLog' = childLog \o LogEntries(r.calls)
          /\ nodeLog' = Append(nodeLog, <<"message", view_state.id>>)
          /\ mapCalls' = r.mapCalls
          /\ callbackCalls' = callbackCalls + r.callbackCalls
          /\ spawned' = spawned \cup r.spawned
          /\ pending' = IF r.mapCalls # <<>>
                        THEN pending \cup {r.ret.action} ELSE pending
    /\ steps' = steps + 1
    /\ UNCHANGED <<phase, self, ctx, element, composeVars>>

\* the address paths the host delivers along: a ViewId built, torn or never built
IdPaths == {<<i>> : i \in 0..MaxSteps}

MapInitVars ==
    /\ phase = "absent"
    /\ self = None
    /\ ctx = [next |-> 0]
    /\ view_state = None
    /\ element = None
    /\ app_state = 0
    /\ ret = None
    /\ call = None
    /\ childCalls = <<>>
    /\ mapCalls = <<>>
    /\ callbackCalls = 0
    /\ pending = {}
    /\ spawned = {}
    /\ steps = 0
    /\ nodeLog = <<>>
    /\ childLog = <<>>

ComposeInitVars ==
    /\ widget_arena = Nodes
    /\ state_arena = Nodes
    /\ st = [n \in Nodes |-> NewState]
    /\ hook = [n \in Nodes |-> NoHook]
    /\ global_root_state = NewState
    /\ ops = 0
    /\ pass = NoPass

ComposeInit ==
    /\ children \in Shapes
    /\ ComposeInitVars
    /\ MapInitVars

ComposeNext ==
    \/ root_compose
    \/ \E n \in Nodes, f \in Flags : SetFlag(n, f)
    \/ \E n \in Nodes, v \in Translations : SetTranslation(n, v)
    \/ \E n \in Nodes, v \in Origins : SetOrigin(n, v)
    \/ \E n \in Nodes, c \in Nodes, v \in Translations : SetHook(n, c, v)

Spec == ComposeInit /\ [][ComposeNext]_vars

\* the host of HostSpec also loses widgets and raises accumulator flags
HostNext ==
    \/ root_compose
    \/ \E n \in Nodes, f \in Flags : SetFlag(n, f)
    \/ \E n \in Nodes, v \in Translations : SetTranslation(n, v)
    \/ \E n \in Nodes, store \in {"widget", "state"} : DropWidget(n, store)
    \/ \E f \in Flags : SetAccFlag(f)

HostSpec == ComposeInit /\ [][HostNext]_vars

RECURSIVE OriginSum(_, _)
\* the origins o summed over n and its ancestors
OriginSum(o, n) ==
    IF n = Root THEN o[n] ELSE VAdd(OriginSum(o, ParentOf(n)), o[n])

\* a tree that layout has placed and a pass has composed
MoveInit ==
    /\ children \in Shapes
    /\ widget_arena = Nodes
    /\ state_arena = Nodes
    /\ \E o \in [Nodes -> Origins] :
          st = [n \in Nodes |-> [NewState EXCEPT !.origin = o[n],
                                     !.window_origin = OriginSum(o, n)]]
    /\ hook = [n \in Nodes |-> NoHook]
    /\ global_root_state = NewState
    /\ ops = 0
    /\ pass = NoPass
    /\ MapInitVars

\* the host of MoveSpec only moves widgets, keeping to the flag discipline
MoveNext ==
    \/ root_compose
    \/ \E n \in Nodes, v \in Translations : MoveWidget(n, v)

MoveSpec == MoveInit /\ [][MoveNext]_vars

MapInit ==
    /\ children = [n \in Nodes |-> ChildrenIds(BushyParent, n)]
    /\ ComposeInitVars
    /\ MapInitVars

MapNext ==
    \/ \E v \in ChildViews : Build(v)
    \/ \E v \in ChildViews : Rebuild(v)
    \/ Teardown
    \/ \E p \in IdPaths, m \in Messages : Message(p, m)

MapSpec == MapInit /\ [][MapNext]_vars

\* ======================================================================
\* Properties of the compose pass (checked under Spec)
\* ======================================================================
\* the widgets the last pass visited
Visited == SeqToSet(pass.visits)
\* the widgets whose compose() the last pass ran
Hooked == SeqToSet(pass.hooks)
PassDone == pass.run >= 1
Depth(n) == Cardinality(Ancestors(n))

\* before the pass, b.translation_changed was the only flag set
OnlyTranslationChanged(b) ==
    \A n \in Nodes, f \in Flags :
        pass.pre[n][f] <=> (n = b /\ f = "translation_changed")

\* before the pass b.translation_changed was set, needs_compose was set on
\* every ancestor of b below the root, and no other flag was set, except
\* possibly the root's needs_compose
FlaggedPathTo(b) ==
    /\ \A f \in Flags : pass.pre[b][f] <=> f = "translation_changed"
    /\ \A n \in Nodes \ {b}, f \in Flags :
          IF n \in Ancestors(b) \ {Root}
          THEN pass.pre[n][f] <=> f = "needs_compose"
          ELSE IF n = Root
               THEN pass.pre[n][f] => f = "needs_compose"
          ELSE ~pass.pre[n][f]

\* before the pass every origin and translation was zero but b.translation,
\* which was (3, 4)
ScenarioGeometry(b) ==
    \A n \in Nodes :
        /\ pass.pre[n].origin = Zero
        /\ pass.pre[n].translation = IF n = b THEN <<3, 4>> ELSE Zero

\* what C1 concludes about the pass for the node b
PathVisited(b) ==
    /\ Ancestors(b) \cup {b} \subseteq Visited
    /\ Visited \subseteq Ancestors(b) \cup {b} \cup Descendants(b)
    /\ (Depth(b) = 2 /\ Descendants(b) = {} /\ ScenarioGeometry(b)) =>
          /\ pass.visits = <<Root, ParentOf(b), b>>
          /\ st[b].window_origin = <<3, 4>>
          /\ \A f \in Flags : ~st[b][f]

\* C1 as claimed: when only one deeply nested node has translation_changed
\* and every other flag is clear, the pass visits the node and all of its
\* ancestors and no sibling subtree; for R -> A -> B the order is R, A, B,
\* B.window_origin is (3, 4) and B's flags are cleared
C1_AsClaimed ==
    PassDone =>
        \A b \in Nodes : (Depth(b) >= 2 /\ OnlyTranslationChanged(b))
                            => PathVisited(b)

\* C1 amended: the same holds when, in addition, every ancestor of the node
\* below the root has needs_compose set; the pass then visits the node, its
\* ancestors and no sibling subtree; for R -> A -> B the order is R, A, B,
\* B.window_origin is (3, 4) and B's flags are cleared
C1_FlaggedPathVisited ==
    PassDone =>
        \A b \in Nodes : (FlaggedPathTo(b) /\ Depth(b) >= 2)
                            => PathVisited(b)

C1_Witness ==
    /\ pass.run = 1
    /\ \E b \in Nodes :
          /\ Depth(b) = 2 /\ Descendants(b) = {}
          /\ FlaggedPathTo(b) /\ ScenarioGeometry(b)
          /\ pass.visits = <<Root, ParentOf(b), b>>
          /\ \E x \in Nodes : x \notin Visited
          /\ st[b].window_origin = <<3, 4>>

RECURSIVE ChainSum(_)
\* origin + translation, as they were when the pass visited the widgets,
\* summed over n and its ancestors
ChainSum(n) ==
    LET own == VAdd(pass.at[n].origin, pass.at[n].translation)
    IN IF n = Root THEN own ELSE VAdd(ChainSum(ParentOf(n)), own)

\* C2: after root_compose every visited node's window_origin is the sum of
\* origin + translation over the node and all of its ancestors, with the
\* values the nodes had when they were visited
C2_WindowOriginIsChainSum ==
    PassDone => \A n \in Visited : st[n].window_origin = ChainSum(n)

C2_Witness ==
    /\ PassDone
    /\ \E n \in Visited \ {Root} :
          /\ ChainSum(ParentOf(n)) # Zero
          /\ VAdd(pass.at[n].origin, pass.at[n].translation) # Zero
          /\ st[n].window_origin = ChainSum(n)

\* C3: a second root_compose with no change in between runs no compose hook
\* and leaves every window_origin as the first left it
C3_SecondPassIdle ==
    pass.run = 2 =>
        /\ pass.hooks = <<>>
        /\ \A n \in Nodes : st[n].window_origin = pass.pre[n].window_origin

C3_Witness ==
    /\ pass.run = 2
    /\ pass.prevHooks # <<>>
    /\ \E n \in Nodes \ {Root} : st[n].window_origin # Zero

\* a flag that causes composing was pending on c when the pass visited it
PendingAtVisit(c) ==
    c \in Visited /\ \E f \in Flags : pass.at[c][f]

\* C4 as claimed: after the pass a parent's request_compose is true iff it
\* was true before the pass or a visited child had a pending flag
C4_AsClaimed ==
    PassDone =>
        \A p \in Nodes : children[p] # <<>> =>
            (st[p].request_compose <=>
                (pass.pre[p].request_compose
                    \/ \E c \in SeqToSet(children[p]) : PendingAtVisit(c)))

\* C4 amended: after the pass a parent's request_compose is true iff it was
\* true before the pass and the parent was not visited: a visit clears it,
\* and the children merged into it have had their own flags cleared
C4_RequestKeptIffNotVisited ==
    PassDone =>
        \A p \in Nodes : children[p] # <<>> =>
            (st[p].request_compose <=>
                (pass.pre[p].request_compose /\ p \notin Visited))

C4_Witness ==
    /\ PassDone
    /\ \E p \in Visited :
          /\ pass.pre[p].request_compose
          /\ ~st[p].request_compose
          /\ \E c \in SeqToSet(children[p]) :
                PendingAtVisit(c) /\ pass.at[c].request_compose

\* C5: a node's compose hook runs only if the node is visited with
\* request_compose set, at most once in a pass, and never for a visited
\* node whose request_compose is clear
C5_HookOnlyOnRequest ==
    PassDone =>
        \A n \in Nodes :
            /\ n \in Hooked => (n \in Visited /\ pass.at[n].request_compose)
            /\ Cardinality({i \in 1..Len(pass.hooks) : pass.hooks[i] = n}) <= 1
            /\ (n \in Visited /\ ~pass.at[n].request_compose) => n \notin Hooked

C5_Witness ==
    /\ PassDone
    /\ \E n \in Hooked : pass.at[n].request_compose
    /\ \E m \in Visited \ (Hooked \cup {Root}) :
          pass.at[m].needs_compose /\ pass.at[m].translation_changed

\* the steps of the last pass, in order
Events == SeqToSet(pass.events)
\* where in the pass the step e was taken
EventPos(e) == CHOOSE i \in 1..Len(pass.events) : pass.events[i] = e

\* the steps of the last pass that were taken on the node n
StepsOn(n) == {e \in Events : e[2] = n}
\* where in the pass the steps on the widgets of the set S were taken
StepPos(S) == {k \in 1..Len(pass.events) : pass.events[k][2] \in S}

\* the state of n as the pass found it: when its parent examined it, or,
\* for a widget the pass never came to, as it was before the pass
Examined(n) == IF n \in pass.reached THEN pass.seen[n] ELSE pass.pre[n]

\* only request_compose is set in the widget state w
OnlyRequest(w) ==
    w.request_compose /\ ~w.needs_compose /\ ~w.translation_changed

\* C19: a widget below the root with only request_compose set, and with no
\* moved ancestor, is not visited, its compose hook is not run, and its
\* request_compose is still set after the pass
C19_RequestAloneNoVisit ==
    PassDone =>
        \A n \in Nodes \ {Root} :
            (OnlyRequest(Examined(n)) /\ Ancestors(n) \cap pass.moved = {})
            => /\ n \notin Visited
               /\ n \notin Hooked
               /\ st[n].request_compose

C19_Witness ==
    /\ PassDone
    /\ \E n \in pass.reached \ {Root} :
          /\ OnlyRequest(Examined(n))
          /\ ParentOf(n) \in Visited \ pass.moved
          /\ <<"skip", n>> \in Events
          /\ st[n].request_compose

\* the hook of n ran in the last pass and gave n's child c a translation
\* other than the one c had
HookMoved(n, c) ==
    /\ hook[n].kind = "move"
    /\ hook[n].child = c
    /\ n \in Hooked
    /\ c \in SeqToSet(children[n])
    /\ hook[n].tr # pass.pre[c].translation

\* C20: a direct child that a visited widget's hook moved, with
\* translation_changed set on it, is visited in the same pass with its new
\* translation, and the child and all of its descendants get window_origin
\* computed from it
C20_HookMoveSeenSamePass ==
    PassDone =>
        \A n \in Nodes : \A c \in SeqToSet(children[n]) :
            HookMoved(n, c)
            => /\ c \in Visited
               /\ pass.at[c].translation = hook[n].tr
               /\ pass.at[c].translation_changed
               /\ EventPos(<<"hook", n>>) < EventPos(<<"visit", c>>)
               /\ \A d \in {c} \cup Descendants(c) :
                     d \in Visited /\ st[d].window_origin = ChainSum(d)

C20_Witness ==
    /\ PassDone
    /\ \E n \in Nodes, c \in Nodes :
          /\ HookMoved(n, c)
          /\ n \notin pass.moved
          /\ \A f \in Flags : ~pass.pre[c][f]
          /\ \E d \in Descendants(c) :
                /\ \A f \in Flags : ~pass.pre[d][f]
                /\ st[d].window_origin # pass.pre[d].window_origin

\* ======================================================================
\* Properties of MapAction (checked under MapSpec)
\* ======================================================================
\* the last call was a message whose child returned an action
Dispatched ==
    /\ call # None /\ call.op = "message"
    /\ childCalls # <<>> /\ childCalls[1].ret.tag = "Action"

\* C6: every deferred unit map_fn yields in a dispatch is handed to the
\* scheduler, from where its completion delivers exactly one parent action
\* through callback_fn, after the dispatch
C6_DeferredUnitScheduled ==
    pending \subseteq spawned

C8_MessageDelegatesThenMaps ==
    (call # None /\ call.op = "message") =>
        /\ Len(childCalls) = 1
        /\ childCalls[1].op = "message"
        /\ childCalls[1].view_state = call.view_state
        /\ childCalls[1].id_path = call.id_path
        /\ childCalls[1].message = call.message
        /\ childCalls[1].app_state = call.app_state
        /\ childCalls[1].ret.tag = "Action" =>
              LET f == map_fn(childCalls[1].app_after, childCalls[1].ret.action)
              IN /\ mapCalls = <<[app_state |-> childCalls[1].app_after,
                                  action |-> childCalls[1].ret.action]>>
                 /\ ret = [tag |-> "Action", action |-> f.fut]
                 /\ app_state = f.app_state

C8_Witness ==
    /\ Dispatched
    /\ ret.tag = "Action"
    /\ Len(mapCalls) = 1
    /\ mapCalls[1].app_state # call.app_state
    /\ ret.action.seen = mapCalls[1].app_state

\* C9: when the child reports no target or consumes the message without an
\* action, message returns that signal unchanged, calls neither map_fn nor
\* callback_fn, schedules nothing and changes the application state no
\* further than the child did (not at all when there was no target)
C9_NoActionPassesThrough ==
    (call # None /\ call.op = "message"
        /\ childCalls[1].ret.tag \in {"Stale", "Nop"}) =>
        /\ ret = childCalls[1].ret
        /\ mapCalls = <<>>
        /\ callbackCalls = 0
        /\ spawned = {}
        /\ app_state = childCalls[1].app_after
        /\ ret.tag = "Stale" => (app_state = call.app_state /\ ret.msg = call.message)

C9_Witness ==
    /\ call # None /\ call.op = "message"
    /\ ret.tag = "Stale"
    /\ call.id_path[1] < view_state.id
    /\ app_state > 0

\* what the wrapped child returns for the last call, computed on its own
ChildResult ==
    IF call.op = "build" THEN child_build(call.view, call.ctx)
    ELSE IF call.op = "rebuild"
         THEN child_rebuild(call.view, call.prev, call.view_state, call.ctx,
                            call.element)
    ELSE child_teardown(call.view, call.view_state, call.ctx, call.element)

\* C10: build, rebuild and teardown make exactly one call of the same
\* operation on the child with the same arguments (rebuild against the
\* previous view's child), return what the child returned, call neither
\* map_fn nor callback_fn, and leave the child's view state and element as
\* those of the combinator
C10_LifecyclePassThrough ==
    (call # None /\ call.op \in {"build", "rebuild", "teardown"}) =>
        /\ childCalls = <<call>>
        /\ call.view = self.child
        /\ ret = ChildResult.ret
        /\ ctx = ChildResult.ctx
        /\ mapCalls = <<>>
        /\ callbackCalls = 0
        /\ call.op = "build" =>
              (element = ret.element /\ view_state = ret.view_state)
        /\ call.op # "build" =>
              (element = ChildResult.element
                  /\ view_state = ChildResult.view_state)

C10_Witness ==
    /\ call # None /\ call.op = "rebuild"
    /\ call.prev # call.view
    /\ element.label = call.view.label
    /\ element.label # call.element.label
    /\ childCalls = <<call>>

\* the calls in log follow the lifecycle of a view node: the first call on
\* a node is its build, it is built once, and nothing is called on it after
\* its teardown (so it is torn down at most once)
Lifecycle(log) ==
    \A i \in 1..Len(log) :
        LET before == {j \in 1..(i - 1) : log[j][2] = log[i][2]}
        IN /\ log[i][1] = "build" <=> before = {}
           /\ \A j \in before : log[j][1] # "teardown"

Missing(c) == c \notin widget_arena \/ c \notin state_arena

\* the children that come after x in the children_ids() of x's parent
LaterSiblings(x) ==
    IF x = Root THEN {}
    ELSE LET cs == children[ParentOf(x)]
         IN {cs[j] : j \in {k \in 1..Len(cs) : \E i \in 1..(k - 1) : cs[i] = x}}

\* C12: when a visited node names a child id that is in neither arena, or
\* only in one, the pass panics at that child with the parent's type name,
\* the parent's id and the child's id; no later sibling is reached and
\* root_compose does not get to merge into the accumulator
C12_MissingChildPanics ==
    PassDone =>
        /\ pass.panic # NoPanic <=>
              \E p \in Visited : \E c \in SeqToSet(children[p]) : Missing(c)
        /\ pass.panic # NoPanic =>
              LET p == pass.panic.parent
                  c == pass.panic.child
              IN /\ p \in Visited
                 /\ c \in SeqToSet(children[p])
                 /\ Missing(c)
                 /\ pass.panic.name = short_type_name(p)
                 /\ c \notin Visited /\ c \notin pass.reached
                 /\ \A x \in {c, p} \cup Ancestors(p) :
                        LaterSiblings(x) \cap (Visited \cup pass.reached) = {}
                 /\ \A x \in {p} \cup Ancestors(p) : \A y \in Nodes :
                        <<y, x>> \notin SeqToSet(pass.merged)
                 /\ global_root_state = pass.acc

C12_Witness ==
    /\ PassDone
    /\ pass.panic # NoPanic
    /\ pass.panic.parent # Root
    /\ \E x \in LaterSiblings(pass.panic.child) : pass.pre[x].needs_compose

\* the flags that merge_up carries upward
Propagating == {"needs_compose", "request_compose"}

\* C17: root_compose visits the root first whatever its flags, as a widget
\* whose parent has not moved and sits at zero, and when the pass returns
\* each propagating flag of the accumulator is its value before the call
\* OR the root's value after the pass; no flag of the accumulator is cleared
C17_RootVisitedAndMerged ==
    PassDone =>
        /\ Len(pass.visits) >= 1 /\ pass.visits[1] = Root
        /\ Root \in pass.moved <=> pass.pre[Root].translation_changed
        /\ st[Root].window_origin =
              VAdd(pass.pre[Root].origin, pass.pre[Root].translation)
        /\ pass.panic = NoPanic =>
              \A f \in Propagating :
                  global_root_state[f] <=> (pass.acc[f] \/ st[Root][f])
        /\ \A f \in Flags : pass.acc[f] => global_root_state[f]

C17_Witness ==
    /\ PassDone
    /\ pass.panic = NoPanic
    /\ \A f \in Flags : ~pass.pre[Root][f]
    /\ pass.acc.needs_compose /\ ~st[Root].needs_compose
    /\ ~pass.acc.request_compose
    /\ global_root_state.needs_compose /\ ~global_root_state.request_compose

\* the last pass ran to its end and root_compose returned
PassReturned == PassDone /\ pass.panic = NoPanic

\* C13: a child of a visited node is visited iff the parent was moved or
\* the child, when it is reached, has translation_changed or needs_compose;
\* a skipped child and its whole subtree keep their state, run no hook and
\* nothing of the child is merged into the parent
C13_SkipRuleAndFrame ==
    PassReturned =>
        \A p \in Visited : \A c \in SeqToSet(children[p]) :
            /\ c \in pass.reached
            /\ c \in Visited <=>
                  (p \in pass.moved \/ pass.seen[c].translation_changed
                       \/ pass.seen[c].needs_compose)
            /\ c \notin Visited =>
                  /\ <<"skip", c>> \in SeqToSet(pass.events)
                  /\ st[c] = pass.seen[c]
                  /\ \A d \in {c} \cup Descendants(c) :
                        /\ st[d] = pass.pre[d]
                        /\ d \notin Visited /\ d \notin Hooked
                  /\ <<p, c>> \notin SeqToSet(pass.merged)

C13_Witness ==
    /\ PassReturned
    /\ \E p \in Visited \ pass.moved :
          /\ \E c \in SeqToSet(children[p]) \cap Visited :
                pass.seen[c].needs_compose /\ ~pass.seen[c].translation_changed
          /\ \E c \in SeqToSet(children[p]) \ Visited :
                \E d \in {c} \cup Descendants(c) : st[d].request_compose

\* C14: every visited node has its three flags cleared after its own hook
\* and before any of its children is looked at, and all three are still
\* clear when root_compose returns
C14_FlagsConsumed ==
    PassReturned =>
        \A n \in Visited :
            /\ <<"clear", n>> \in Events
            /\ \A f \in Flags : ~pass.cleared[n][f]
            /\ n \in Hooked => EventPos(<<"hook", n>>) < EventPos(<<"clear", n>>)
            /\ \A c \in SeqToSet(children[n]) :
                  \A e \in {<<"visit", c>>, <<"skip", c>>} \cap Events :
                      EventPos(<<"clear", n>>) < EventPos(e)
            /\ \A f \in Flags : ~st[n][f]

C14_Witness ==
    /\ PassReturned
    /\ \E n \in Hooked :
          /\ \A f \in Flags : pass.at[n][f]
          /\ SeqToSet(children[n]) \cap Visited # {}
          /\ \A f \in Flags : ~st[n][f]

\* C16: the pass is a depth-first pre-order walk in child order: no step is
\* taken twice, so every node is visited at most once; a node's own steps
\* (visit, hook, clear) come before any step on its children; and every step
\* in the subtree of one child, its merge into the parent included, comes
\* before the first step on the next child
C16_DepthFirstPreOrder ==
    PassReturned =>
        /\ Cardinality(Events) = Len(pass.events)
        /\ Cardinality(Visited) = Len(pass.visits)
        /\ Len(pass.visits) <= NumNodes
        /\ \A n \in Visited :
              /\ pass.events[EventPos(<<"visit", n>>) + 1] \in
                    {<<"hook", n>>, <<"clear", n>>}
              /\ \A k \in StepPos(Descendants(n)) :
                    EventPos(<<"clear", n>>) < k
              /\ \A i, j \in 1..Len(children[n]) :
                    i < j =>
                        /\ StepsOn(children[n][i]) # {}
                        /\ StepsOn(children[n][j]) # {}
                        /\ children[n][i] \in Visited
                              => <<"merge", children[n][i]>> \in Events
                        /\ \A k1 \in StepPos({children[n][i]}
                                       \cup Descendants(children[n][i])) :
                              \A k2 \in StepPos({children[n][j]}
                                       \cup Descendants(children[n][j])) :
                                  k1 < k2

C16_Witness ==
    /\ PassReturned
    /\ Len(pass.visits) = NumNodes
    /\ \E n \in Visited :
          /\ Len(children[n]) >= 2
          /\ Descendants(children[n][1]) # {}
          /\ EventPos(<<"merge", children[n][1]>>)
                < EventPos(<<"visit", children[n][2]>>)

\* ======================================================================
\* Properties of the pass under the flagging discipline (MoveSpec)
\* ======================================================================
RECURSIVE WindowSum(_)
\* origin + translation summed over n and its ancestors, as they are now
WindowSum(n) ==
    LET own == VAdd(st[n].origin, st[n].translation)
    IN IF n = Root THEN own ELSE VAdd(WindowSum(ParentOf(n)), own)

\* C18: from a tree with consistent geometry, after translation changes
\* that each flag the changed node with translation_changed and all its
\* ancestors with needs_compose, one root_compose leaves every node of the
\* tree, visited or skipped, with window_origin equal to its ancestor-chain
\* sum and with neither translation_changed nor needs_compose set
C18_GeometryRestored ==
    PassDone =>
        \A n \in Nodes :
            /\ st[n].window_origin = WindowSum(n)
            /\ ~st[n].translation_changed
            /\ ~st[n].needs_compose

C18_Witness ==
    /\ PassDone
    /\ Nodes \ Visited # {}
    /\ \E n \in Visited :
          /\ n # Root
          /\ pass.pre[n].translation_changed
          /\ pass.pre[n].window_origin # WindowSum(n)
          /\ \E d \in Descendants(n) :
                pass.pre[d].window_origin # st[d].window_origin

\* C15: when a visited node had translation_changed at its visit, or a
\* visited ancestor of it had, every descendant of the node at every depth
\* is visited in the same pass, whatever its own flags, and gets its
\* window_origin recomputed
C15_MotionForcesDescent ==
    PassDone =>
        \A n \in Visited :
            (pass.at[n].translation_changed
                \/ \E a \in Ancestors(n) : pass.at[a].translation_changed)
            => \A d \in Descendants(n) :
                  d \in Visited /\ st[d].window_origin = ChainSum(d)

C15_Witness ==
    /\ PassDone
    /\ \E n \in Visited :
          /\ pass.at[n].translation_changed
          /\ \E d \in Descendants(n) \cap Visited :
                /\ Depth(d) >= Depth(n) + 2
                /\ \A f \in Flags : ~pass.pre[d][f]
                /\ \A f \in Flags : ~pass.pre[ParentOf(d)][f]
                /\ st[d].window_origin # pass.pre[d].window_origin

====
